---- MODULE Spec2Model ----
(***************************************************************************)
(* tools/docker_quickstart.py: the quickstart helper that syncs the        *)
(* netdisco-docker packaging repository and a netdisco fork into a         *)
(* workspace, builds the images with docker compose and starts the stack.  *)
(*                                                                         *)
(* The state is the part of the host the script reads and writes (the      *)
(* workspace, the two repository directories, the remotes), the parsed     *)
(* arguments, the position of main, and the record of every external       *)
(* command main has handed to subprocess.run in the current run.           *)
(***************************************************************************)
EXTENDS Naturals, Sequences, FiniteSets, TLC

VARIABLES
    args,       \* argparse.Namespace of the runs
    ws,         \* the workspace path: "absent", "dir" or "file"
    fs,         \* the two repository directories under the workspace
    remote,     \* remote[url][branch]: number of the commit at the branch's tip
    pc,         \* position of main
    call,       \* which ensure_repo call of main is active (1, 2), 0 outside
    log,        \* the subprocess.run calls of the current run, in order
    result,     \* how main ended: "none", "0", "1", or "uncaught"
    run,        \* number of runs of main started
    entered,    \* entered[c]: destination.exists() as call c of this run saw it
    wsPre,      \* what the workspace path was when this run started
    prevResult, \* result of the previous run
    pushes,     \* commits pushed to the remotes so far
    synced      \* per directory: the state a successful ensure_repo left

vars == <<args, ws, fs, remote, pc, call, log, result, run, entered, wsPre,
          prevResult, pushes, synced>>

(* ---------------------------- bounds ---------------------------------- *)

MaxRuns == 2
MaxPush == 1
InitTip == 2

(* --------------------------- constants -------------------------------- *)

DEFAULT_PACKAGING_REPO == "https://github.com/netdisco/netdisco-docker.git"
DEFAULT_BRANCH == "main"
ForkURL == "git@example.org:me/netdisco.git"

URLs == {DEFAULT_PACKAGING_REPO, ForkURL}
Branches == {DEFAULT_BRANCH, "feature"}
DefaultServices == <<"netdisco-backend", "netdisco-web">>

packaging_dir == "netdisco-docker"
fork_dir == "netdisco"
Dirs == {packaging_dir, fork_dir}

(* ----------------------- the file system ------------------------------ *)

\* A local branch: the remote commit it is based on and whether it carries
\* commits of its own on top.  base = 0: the branch does not exist.
NoBranch == [base |-> 0, extra |-> FALSE]

NoPath ==
    [kind |-> "absent", origin |-> "", head |-> "",
     local |-> [b \in Branches |-> NoBranch], rt |-> [b \in Branches |-> 0]]

FilePath == [NoPath EXCEPT !.kind = "file"]

\* A directory that is no git repository (also what an interrupted clone leaves).
PlainDir == [NoPath EXCEPT !.kind = "plain"]

\* A clone of url with `head` checked out; rt are its remote-tracking refs.
Repo(url, head, commit, rt) ==
    [kind |-> "repo", origin |-> url, head |-> head,
     local |-> [b \in Branches |-> IF b = head THEN commit ELSE NoBranch],
     rt |-> rt]

\* The states a repository directory can be in before the first run: no such
\* path, a file, a directory that is no repository, or a clone of either URL,
\* on the default branch (behind, up to date, ahead or diverged) or on the
\* other branch and knowing no other.
InitialPaths ==
    {NoPath, FilePath, PlainDir} \cup
    { Repo(u, DEFAULT_BRANCH, [base |-> n, extra |-> x],
           [b \in Branches |-> n]) :
        u \in URLs, n \in 1..InitTip, x \in BOOLEAN } \cup
    { Repo(u, h, [base |-> InitTip, extra |-> FALSE],
           [b \in Branches |-> IF b = h THEN InitTip ELSE 0]) :
        u \in URLs, h \in Branches \ {DEFAULT_BRANCH} }

exists(path) == path.kind # "absent"

\* mkdir without exist_ok=True: an existing directory raises too.
mkdir_no_exist_ok(path) ==
    IF path # "absent" THEN "FileExistsError" ELSE "none"

\* Path.mkdir(parents=True, exist_ok=True): the exception it raises.  It
\* accepts an existing directory and raises when the path is a file.
mkdir(path) == IF path = "file" THEN "FileExistsError" ELSE "none"

(* ------------------------------ git ----------------------------------- *)

Tips(url) == [b \in Branches |-> remote[url][b]]

\* git clone --branch <branch> <url> <destination>, exit 0 (it refuses a
\* destination that exists).
GitClone(url, branch) ==
    Repo(url, branch, [base |-> remote[url][branch], extra |-> FALSE], Tips(url))

\* git fetch --all, exit 0: the remote-tracking refs follow the clone's origin.
GitFetch(path) == [path EXCEPT !.rt = Tips(path.origin)]

\* git checkout <branch> needs a local branch or a remote-tracking ref to
\* create it from.
CanCheckout(path, branch) ==
    path.local[branch].base > 0 \/ path.rt[branch] > 0

GitCheckout(path, branch) ==
    [path EXCEPT !.head = branch,
                 !.local[branch] =
                     IF @.base > 0 THEN @
                     ELSE [base |-> path.rt[branch], extra |-> FALSE]]

\* git pull --ff-only refuses when the checked-out branch has commits of its
\* own and the remote branch has moved on (diverged histories).
CanPull(path) ==
    LET c == path.local[path.head]
    IN  ~c.extra \/ c.base = remote[path.origin][path.head]

GitPull(path) ==
    [path EXCEPT !.rt = Tips(path.origin),
                 !.local[path.head] =
                     IF @.extra THEN @
                     ELSE [base |-> remote[path.origin][path.head],
                           extra |-> FALSE]]

(* ------------------------- subprocess.run ----------------------------- *)

\* What the host does to a command apart from the modelled state: it runs
\* it ("ok"), makes it exit nonzero ("fail": network, permissions, a dirty
\* work tree, a failing build), or has no such executable ("notfound").
Env == {"ok", "fail", "notfound"}

\* subprocess.run(cmd, cwd=cwd, check=False): the exception it raises, or the
\* return code of the process.  cwdKind is "none" for cwd=None; refuses: the
\* modelled state makes the command exit nonzero.
subprocess_run(cwdKind, e, refuses) ==
    IF cwdKind = "file"
    THEN [exc |-> "NotADirectoryError", returncode |-> 0, forced |-> TRUE]
    ELSE IF cwdKind = "absent"
    THEN [exc |-> "FileNotFoundError", returncode |-> 0, forced |-> TRUE]
    ELSE IF e = "notfound"
    THEN [exc |-> "FileNotFoundError", returncode |-> 0, forced |-> FALSE]
    ELSE IF refuses
    THEN [exc |-> "none", returncode |-> 128, forced |-> TRUE]
    ELSE IF e = "fail"
    THEN [exc |-> "none", returncode |-> 1, forced |-> FALSE]
    ELSE [exc |-> "none", returncode |-> 0, forced |-> FALSE]

\* run_command without the test of the return code.
run_command_unchecked(process) == process.exc

\* run_command: the exception that leaves it, "none" when it returns.
run_command(process) ==
    IF process.exc # "none" THEN process.exc
    ELSE IF process.returncode # 0 THEN "CommandError"
    ELSE "none"

Invocation(c, cmd, cwd, process) ==
    [call |-> c, cmd |-> cmd, cwd |-> cwd, exc |-> process.exc,
     returncode |-> process.returncode, forced |-> process.forced]

(* --------------------------- the commands ----------------------------- *)

\* checkout of the default branch instead of the branch asked for.
checkout_cmd_default(branch) == <<"git", "checkout", DEFAULT_BRANCH>>

\* The two build arguments with their values exchanged.
compose_cmd_swapped(compose_services, branch, repo_url) ==
    <<"docker", "compose", "build",
      "--build-arg", "COMMITTISH=" \o repo_url,
      "--build-arg", "GIT_URL=" \o branch>> \o compose_services

fetch_cmd == <<"git", "fetch", "--all">>
checkout_cmd(branch) == <<"git", "checkout", branch>>
pull_cmd == <<"git", "pull", "--ff-only">>
clone_cmd(url, destination, branch) ==
    <<"git", "clone", "--branch", branch, url, destination>>

compose_cmd(compose_services, branch, repo_url) ==
    <<"docker", "compose", "build",
      "--build-arg", "COMMITTISH=" \o branch,
      "--build-arg", "GIT_URL=" \o repo_url>> \o compose_services

up_cmd == <<"docker", "compose", "up", "-d">>

(* ------------------------------ main ---------------------------------- *)

\* parse_args: the argument vectors of the runs.  --repo-url, --branch and
\* --no-start take every value with the other options at their defaults;
\* two more vectors give --packaging-url and --compose-services (nargs="*").
ArgVectors ==
    [repo_url : URLs, branch : Branches,
     packaging_url : {DEFAULT_PACKAGING_REPO},
     compose_services : {DefaultServices},
     no_start : BOOLEAN]
    \cup
    { [repo_url |-> DEFAULT_PACKAGING_REPO, branch |-> "feature",
       packaging_url |-> ForkURL,
       compose_services |-> <<"netdisco-web", "netdisco-backend">>,
       no_start |-> FALSE],
      [repo_url |-> ForkURL, branch |-> DEFAULT_BRANCH,
       packaging_url |-> ForkURL,
       compose_services |-> <<>>,
       no_start |-> TRUE] }

\* The packaging sync given the --branch value instead of "main".
EnsureRepoArgs_user_branch(c) ==
    IF c = 1
    THEN [url |-> args.packaging_url, destination |-> packaging_dir,
          branch |-> args.branch]
    ELSE [url |-> args.repo_url, destination |-> fork_dir,
          branch |-> args.branch]

\* start_after_build=args.no_start, the negation lost.
BuildAndRunArgs_start_inverted ==
    [packaging_dir |-> packaging_dir,
     compose_services |-> args.compose_services,
     branch |-> args.branch,
     repo_url |-> args.repo_url,
     start_after_build |-> args.no_start]

\* main without the except FileNotFoundError clause.
main_except_no_fnf(exc) ==
    IF exc = "CommandError" THEN "1" ELSE "uncaught"

\* The test of ensure_repo the wrong way round.
ensure_repo_branch_inverted(path) == IF exists(path) THEN "clone" ELSE "fetch"

\* ensure_repo without the test: it always clones.
ensure_repo_always_clone(path) == "clone"

\* The arguments of the two ensure_repo calls of main.
EnsureRepoArgs(c) ==
    IF c = 1
    THEN [url |-> args.packaging_url, destination |-> packaging_dir,
          branch |-> "main"]
    ELSE [url |-> args.repo_url, destination |-> fork_dir,
          branch |-> args.branch]

\* The arguments of the build_and_run call of main.
BuildAndRunArgs ==
    [packaging_dir |-> packaging_dir,
     compose_services |-> args.compose_services,
     branch |-> args.branch,
     repo_url |-> args.repo_url,
     start_after_build |-> ~args.no_start]

\* The except clauses of main: what main returns for an exception raised in
\* the try block, "uncaught" when no clause takes it.
main_except(exc) ==
    IF exc = "CommandError" THEN "1"
    ELSE IF exc = "FileNotFoundError" THEN "1"
    ELSE "uncaught"

\* ensure_repo's test: the first command it runs.
ensure_repo_branch(path) == IF exists(path) THEN "fetch" ELSE "clone"

NotSynced == [ok |-> FALSE, run |-> 0, state |-> NoPath]

\* An exception leaves the try block of main.
Raise(exc) ==
    /\ result' = main_except(exc)
    /\ pc' = "done"
    /\ UNCHANGED <<call, synced>>

\* ensure_repo returns to main, which goes on to the next call.
Return(c, path) ==
    /\ result' = result
    /\ pc' = IF c = 1 THEN "exists" ELSE "build"
    /\ call' = c + 1
    /\ synced' = LET d == EnsureRepoArgs(c).destination
                 IN  IF synced[d].ok THEN synced
                     ELSE [synced EXCEPT
                             ![d] = [ok |-> TRUE, run |-> run, state |-> path]]

Init ==
    /\ args \in ArgVectors
    /\ ws \in {"absent", "dir", "file"}
    /\ fs \in [Dirs -> InitialPaths]
    /\ ws # "dir" => \A d \in Dirs : fs[d] = NoPath
    /\ remote = [u \in URLs |-> [b \in Branches |-> InitTip]]
    /\ pc = "main"
    /\ call = 0
    /\ log = <<>>
    /\ result = "none"
    /\ run = 1
    /\ entered = [c \in 1..2 |-> ""]
    /\ wsPre = ws
    /\ prevResult = "none"
    /\ pushes = 0
    /\ synced = [d \in Dirs |-> NotSynced]

\* main, lines 125-130: parse_args, then workspace.mkdir(parents=True,
\* exist_ok=True), outside the try block.
Main ==
    /\ pc = "main"
    /\ IF mkdir(ws) # "none"
       THEN /\ result' = "uncaught"
            /\ pc' = "done"
            /\ UNCHANGED <<ws, call>>
       ELSE /\ ws' = "dir"
            /\ pc' = "exists"
            /\ call' = 1
            /\ result' = result
    /\ UNCHANGED <<args, fs, remote, log, run, entered, wsPre, prevResult,
                   pushes, synced>>

\* ensure_repo, line 48: if destination.exists().
EnsureRepo ==
    /\ pc = "exists"
    /\ LET t == EnsureRepoArgs(call)
       IN  /\ entered' = [entered EXCEPT ![call] = fs[t.destination].kind]
           /\ pc' = ensure_repo_branch(fs[t.destination])
    /\ UNCHANGED <<args, ws, fs, remote, call, log, result, run, wsPre,
                   prevResult, pushes, synced>>

\* ensure_repo, line 50: run_command(["git", "fetch", "--all"], cwd=destination).
Fetch ==
    /\ pc = "fetch"
    /\ \E e \in Env :
         LET t == EnsureRepoArgs(call)
             path == fs[t.destination]
             process == subprocess_run(path.kind, e, path.kind # "repo")
             exc == run_command(process)
         IN  /\ log' = Append(log, Invocation(call, fetch_cmd, t.destination, process))
             /\ IF process.exc = "none" /\ process.returncode = 0
                THEN fs' = [fs EXCEPT ![t.destination] = GitFetch(path)]
                ELSE fs' = fs
             /\ IF exc = "none"
                THEN /\ pc' = "checkout"
                     /\ UNCHANGED <<call, result, synced>>
                ELSE Raise(exc)
    /\ UNCHANGED <<args, ws, remote, run, entered, wsPre, prevResult, pushes>>

\* ensure_repo, line 51: run_command(["git", "checkout", branch], cwd=destination).
Checkout ==
    /\ pc = "checkout"
    /\ \E e \in Env :
         LET t == EnsureRepoArgs(call)
             path == fs[t.destination]
             process == subprocess_run(path.kind, e,
                            path.kind # "repo" \/ ~CanCheckout(path, t.branch))
             exc == run_command(process)
         IN  /\ log' = Append(log, Invocation(call, checkout_cmd(t.branch),
                                              t.destination, process))
             /\ IF process.exc = "none" /\ process.returncode = 0
                THEN fs' = [fs EXCEPT ![t.destination] = GitCheckout(path, t.branch)]
                ELSE fs' = fs
             /\ IF exc = "none"
                THEN /\ pc' = "pull"
                     /\ UNCHANGED <<call, result, synced>>
                ELSE Raise(exc)
    /\ UNCHANGED <<args, ws, remote, run, entered, wsPre, prevResult, pushes>>

\* ensure_repo, line 52: run_command(["git", "pull", "--ff-only"], cwd=destination).
Pull ==
    /\ pc = "pull"
    /\ \E e \in Env :
         LET t == EnsureRepoArgs(call)
             path == fs[t.destination]
             process == subprocess_run(path.kind, e,
                            path.kind # "repo" \/ ~CanPull(path))
             exc == run_command(process)
         IN  /\ log' = Append(log, Invocation(call, pull_cmd, t.destination, process))
             /\ IF process.exc = "none" /\ process.returncode = 0
                THEN fs' = [fs EXCEPT ![t.destination] = GitPull(path)]
                ELSE fs' = fs
             /\ IF exc = "none"
                THEN Return(call, fs'[t.destination])
                ELSE Raise(exc)
    /\ UNCHANGED <<args, ws, remote, run, entered, wsPre, prevResult, pushes>>

\* ensure_repo, line 55: run_command(["git", "clone", "--branch", branch, url,
\* str(destination)]).  A clone that fails may leave a partial directory.
Clone ==
    /\ pc = "clone"
    /\ \E e \in Env, partial \in BOOLEAN :
         LET t == EnsureRepoArgs(call)
             process == subprocess_run("none", e, exists(fs[t.destination]))
             exc == run_command(process)
         IN  /\ log' = Append(log, Invocation(call,
                           clone_cmd(t.url, t.destination, t.branch), "", process))
             /\ IF process.exc = "none" /\ process.returncode = 0
                THEN fs' = [fs EXCEPT ![t.destination] = GitClone(t.url, t.branch)]
                ELSE IF process.exc = "none" /\ partial /\ ~process.forced
                THEN fs' = [fs EXCEPT ![t.destination] = PlainDir]
                ELSE fs' = fs
             /\ IF exc = "none"
                THEN Return(call, fs'[t.destination])
                ELSE Raise(exc)
    /\ UNCHANGED <<args, ws, remote, run, entered, wsPre, prevResult, pushes>>

\* build_and_run, lines 102-113: docker compose build.
Build ==
    /\ pc = "build"
    /\ \E e \in Env :
         LET a == BuildAndRunArgs
             process == subprocess_run(fs[a.packaging_dir].kind, e, FALSE)
             exc == run_command(process)
         IN  /\ log' = Append(log, Invocation(call,
                           compose_cmd(a.compose_services, a.branch, a.repo_url),
                           a.packaging_dir, process))
             /\ IF exc # "none"
                THEN Raise(exc)
                ELSE IF a.start_after_build
                THEN /\ pc' = "up"
                     /\ UNCHANGED <<call, result, synced>>
                ELSE /\ pc' = "done"
                     /\ result' = "0"
                     /\ UNCHANGED <<call, synced>>
    /\ UNCHANGED <<args, ws, fs, remote, run, entered, wsPre, prevResult, pushes>>

\* build_and_run, lines 115-119: docker compose up -d; then main returns 0.
Up ==
    /\ pc = "up"
    /\ \E e \in Env :
         LET a == BuildAndRunArgs
             process == subprocess_run(fs[a.packaging_dir].kind, e, FALSE)
             exc == run_command(process)
         IN  /\ log' = Append(log, Invocation(call, up_cmd, a.packaging_dir, process))
             /\ IF exc # "none"
                THEN Raise(exc)
                ELSE /\ pc' = "done"
                     /\ result' = "0"
                     /\ UNCHANGED <<call, synced>>
    /\ UNCHANGED <<args, ws, fs, remote, run, entered, wsPre, prevResult, pushes>>

\* The script is started again with the same arguments.
Rerun ==
    /\ pc = "done"
    /\ run < MaxRuns
    /\ pc' = "main"
    /\ call' = 0
    /\ log' = <<>>
    /\ result' = "none"
    /\ run' = run + 1
    /\ entered' = [c \in 1..2 |-> ""]
    /\ wsPre' = ws
    /\ prevResult' = result
    /\ UNCHANGED <<args, ws, fs, remote, pushes, synced>>

\* Between two runs every branch of the remotes receives a new commit.
Push ==
    /\ pc = "done"
    /\ run < MaxRuns
    /\ pushes < MaxPush
    /\ remote' = [u \in URLs |-> [b \in Branches |-> remote[u][b] + 1]]
    /\ pushes' = pushes + 1
    /\ synced' = [d \in Dirs |-> NotSynced]
    /\ UNCHANGED <<args, ws, fs, pc, call, log, result, run, entered, wsPre,
                   prevResult>>

Next ==
    \/ Main
    \/ EnsureRepo
    \/ Fetch
    \/ Checkout
    \/ Pull
    \/ Clone
    \/ Build
    \/ Up
    \/ Rerun
    \/ Push

Spec == Init /\ [][Next]_vars

(* ----------------------- reading the record --------------------------- *)

Idx == 1..Len(log)

\* The command was launched and exited zero.
Ok(e) == e.exc = "none" /\ e.returncode = 0

\* The command was launched and exited nonzero.
ExitedNonzero(e) == e.exc = "none" /\ e.returncode # 0

IsGit(e) == e.cmd[1] = "git"
IsClone(e) == IsGit(e) /\ e.cmd[2] = "clone"
IsBuild(e) == SubSeq(e.cmd, 1, 3) = <<"docker", "compose", "build">>
IsUp(e) == SubSeq(e.cmd, 1, 3) = <<"docker", "compose", "up">>

\* The directory a git command works on: its cwd, or the destination of a clone.
GitDir(e) == IF IsClone(e) THEN e.cmd[Len(e.cmd)] ELSE e.cwd

\* The commands ensure_repo call c of this run has invoked so far.
CallLog(c) == SelectSeq(log, LAMBDA e : e.call = c)

\* ensure_repo call c of this run has been entered and has ended.
CallOver(c) == entered[c] # "" /\ (pc = "done" \/ call > c)

\* ensure_repo call c of this run has returned without raising.
Returned(c) == call > c

Ups == {i \in Idx : IsUp(log[i])}
Builds == {i \in Idx : IsBuild(log[i])}

(* ------------------------------ claims -------------------------------- *)

\* C1: whenever a command of the run (a git command of either sync, docker
\* compose build, docker compose up) has exited nonzero, it is the last
\* command the run invoked, the run is over and main returned 1.
C1_NonzeroExitHalts ==
    \A i \in Idx :
        ExitedNonzero(log[i]) =>
            /\ i = Len(log)
            /\ pc = "done"
            /\ result = "1"

\* C1 witness: docker compose up was invoked after two syncs and a build and
\* exited nonzero.
C1_Witness ==
    /\ Len(log) >= 4
    /\ IsUp(log[Len(log)])
    /\ ExitedNonzero(log[Len(log)])

\* C2: an ensure_repo call that found its destination absent invokes nothing
\* but git clone --branch <branch> <url> <destination>, at most once, and
\* exactly once by the time the call is over.
C2_AbsentClonesOnce ==
    \A c \in 1..2 :
        entered[c] = "absent" =>
            LET t == EnsureRepoArgs(c)
                L == CallLog(c)
            IN  /\ Len(L) <= 1
                /\ \A i \in 1..Len(L) :
                       /\ L[i].cmd = <<"git", "clone", "--branch",
                                       t.branch, t.url, t.destination>>
                       /\ L[i].cmd[2] \notin {"fetch", "checkout", "pull"}
                /\ CallOver(c) => Len(L) = 1

\* C2 witness: the fork sync found no destination, cloned, and returned.
C2_Witness ==
    /\ entered[2] = "absent"
    /\ Returned(2)
    /\ Len(CallLog(2)) = 1

\* C3: an ensure_repo call that found its destination present invokes a prefix
\* of fetch --all, checkout <branch>, pull --ff-only, each in the destination,
\* never clone; every command before the last one invoked exited zero, and a
\* call whose commands all exited zero has invoked all three.
C3_PresentFetchCheckoutPull ==
    \A c \in 1..2 :
        entered[c] \notin {"", "absent"} =>
            LET t == EnsureRepoArgs(c)
                L == CallLog(c)
                expected == << <<"git", "fetch", "--all">>,
                               <<"git", "checkout", t.branch>>,
                               <<"git", "pull", "--ff-only">> >>
            IN  /\ Len(L) <= 3
                /\ \A i \in 1..Len(L) :
                       /\ L[i].cmd = expected[i]
                       /\ L[i].cwd = t.destination
                       /\ ~IsClone(L[i])
                       /\ i < Len(L) => Ok(L[i])
                /\ CallOver(c) =>
                       /\ Len(L) >= 1
                       /\ Ok(L[Len(L)]) => Len(L) = 3

\* C3 witness: the fork sync found a clone on another branch, and fetched,
\* checked out and pulled.
C3_Witness ==
    /\ entered[2] = "repo"
    /\ Returned(2)
    /\ Len(CallLog(2)) = 3
    /\ args.branch # DEFAULT_BRANCH

\* The destination holds the requested branch of the given URL at its tip.
AtRemoteTip(path, url, branch) ==
    /\ path.kind = "repo"
    /\ path.origin = url
    /\ path.head = branch
    /\ path.local[branch] = [base |-> remote[url][branch], extra |-> FALSE]

\* C4: whenever ensure_repo(url, destination, branch) has returned without
\* raising, the destination holds the requested branch of the given URL at
\* the remote tip (the remotes do not move while a run is under way).
C4_ReturnedAtRemoteTip ==
    \A c \in 1..2 :
        (Returned(c) /\ pc # "done") =>
            LET t == EnsureRepoArgs(c)
            IN  AtRemoteTip(fs[t.destination], t.url, t.branch)

\* C5: with --no-start docker compose up is never invoked; without it, it is
\* invoked at most once, only right after a docker compose build that exited
\* zero (so after two syncs that succeeded), and exactly once in a run whose
\* build exited zero.
C5_UpOnlyAfterBuild ==
    /\ args.no_start => Ups = {}
    /\ ~args.no_start =>
           /\ Cardinality(Ups) <= 1
           /\ \A i \in Ups :
                  /\ i > 1
                  /\ IsBuild(log[i - 1])
                  /\ \A j \in 1..(i - 1) : Ok(log[j])
           /\ (pc = "done" /\ \E i \in Builds : Ok(log[i])) =>
                  Cardinality(Ups) = 1

\* C5 witness: a run without --no-start has built and invoked up once.
C5_Witness ==
    /\ ~args.no_start
    /\ pc = "done"
    /\ Cardinality(Ups) = 1
    /\ \E i \in Builds : Ok(log[i])

\* C6: every docker compose build command of a run is docker compose build
\* --build-arg COMMITTISH=<--branch> --build-arg GIT_URL=<--repo-url> followed
\* by the service names in order: exactly two build arguments.
C6_BuildArguments ==
    \A i \in Builds :
        /\ log[i].cmd =
               <<"docker", "compose", "build",
                 "--build-arg", "COMMITTISH=" \o args.branch,
                 "--build-arg", "GIT_URL=" \o args.repo_url>>
               \o args.compose_services
        /\ Cardinality({k \in 1..Len(log[i].cmd) :
                            log[i].cmd[k] = "--build-arg"}) = 2

\* C6 witness: a build was invoked in a run whose --branch is not the
\* packaging branch and whose --repo-url is not the packaging URL.
C6_Witness ==
    /\ Builds # {}
    /\ args.branch # "main"
    /\ args.repo_url # args.packaging_url

\* The step of main a command belongs to, read off the command itself.
Rank(e) ==
    IF IsGit(e) THEN (IF GitDir(e) = packaging_dir THEN 1 ELSE 2)
    ELSE IF IsBuild(e) THEN 3
    ELSE 4

\* The branch a git command names (fetch and pull name none).
NamesBranch(e, branch) ==
    /\ e.cmd[2] = "checkout" => e.cmd[3] = branch
    /\ e.cmd[2] = "clone" => e.cmd[4] = branch

\* C7: the commands of a run come in the order packaging sync, fork sync,
\* build, up; a command of a later step is invoked only after every command
\* before it exited zero, and build only after both syncs ran; the packaging
\* sync names branch "main" and the fork sync the --branch value.
C7_StepOrder ==
    /\ \A i, j \in Idx : i < j => Rank(log[i]) <= Rank(log[j])
    /\ \A j \in Idx :
           Rank(log[j]) > 1 =>
               /\ \A i \in 1..(j - 1) : Ok(log[i])
               /\ \E i \in 1..(j - 1) : Rank(log[i]) = 1
    /\ \A j \in Idx :
           Rank(log[j]) > 2 => \E i \in 1..(j - 1) : Rank(log[i]) = 2
    /\ \A i \in Idx :
           /\ Rank(log[i]) = 1 => NamesBranch(log[i], "main")
           /\ Rank(log[i]) = 2 => NamesBranch(log[i], args.branch)

\* C7 witness: with --branch other than main, both syncs ran (the packaging
\* one checked out a branch) and the build was invoked.
C7_Witness ==
    /\ args.branch # "main"
    /\ Builds # {}
    /\ \E i \in Idx : Rank(log[i]) = 1 /\ log[i].cmd[2] = "checkout"
    /\ \E i \in Idx : Rank(log[i]) = 2 /\ log[i].cmd[2] = "clone"

\* Every step of the run was taken and every command exited zero.
AllSucceeded ==
    /\ \A i \in Idx : Ok(log[i])
    /\ \E i \in Idx : Rank(log[i]) = 1
    /\ \E i \in Idx : Rank(log[i]) = 2
    /\ Builds # {}
    /\ ~args.no_start => Ups # {}

\* C8: a finished run returned 0 exactly when every step succeeded; a command
\* whose launch raised FileNotFoundError is the last one invoked and the run
\* returned 1; a run in which a command failed or was not found returned 1;
\* no command is invoked twice in a run.
C8_ExitCodes ==
    /\ pc = "done" => (result = "0" <=> AllSucceeded)
    /\ pc # "done" => result = "none"
    /\ \A i \in Idx :
           log[i].exc = "FileNotFoundError" =>
               /\ i = Len(log)
               /\ pc = "done"
               /\ result = "1"
    /\ \A i \in Idx :
           (ExitedNonzero(log[i]) /\ pc = "done") => result = "1"
    /\ \A i, j \in Idx :
           i # j => <<log[i].cmd, log[i].cwd>> # <<log[j].cmd, log[j].cwd>>

\* C8 witness: docker was not found when the build was launched.
C8_Witness ==
    /\ Len(log) >= 3
    /\ IsBuild(log[Len(log)])
    /\ log[Len(log)].exc = "FileNotFoundError"
    /\ ~log[Len(log)].forced

\* C9: a workspace that was absent or a directory when the run started is a
\* directory from mkdir on: mkdir did not end the run, the workspace exists
\* whenever a command has been invoked, and right after mkdir the run is in
\* the state of a run that found an empty workspace directory (nothing
\* invoked, no result, the directories as they were).
C9_WorkspaceCreatedOrReused ==
    /\ log # <<>> => ws = "dir"
    /\ (wsPre \in {"absent", "dir"} /\ pc # "main") =>
           /\ ws = "dir"
           /\ ~(pc = "done" /\ log = <<>>)
    /\ (pc = "exists" /\ call = 1) =>
           /\ ws = "dir"
           /\ log = <<>>
           /\ result = "none"
           /\ wsPre = "absent" => \A d \in Dirs : fs[d] = NoPath

\* C9 witness: the workspace was absent, and the run has invoked a command.
C9_Witness ==
    /\ wsPre = "absent"
    /\ log # <<>>

\* C10: when a directory was synced successfully in an earlier run and the
\* remotes have not moved since, an ensure_repo call on it invokes no clone,
\* no command of it fails for a reason that lies in the directory, and the
\* directory stays in the state the first sync left; and a run that follows
\* a run that returned 0 invokes no clone.
C10_SyncIdempotent ==
    /\ \A c \in 1..2 :
           LET d == EnsureRepoArgs(c).destination
               L == CallLog(c)
           IN  (synced[d].ok /\ synced[d].run < run /\ entered[c] # "") =>
                   /\ \A i \in 1..Len(L) :
                          /\ ~IsClone(L[i])
                          /\ ~Ok(L[i]) => ~L[i].forced
                   /\ fs[d] = synced[d].state
    /\ prevResult = "0" => \A i \in Idx : ~IsClone(log[i])

\* C10 witness: the second of two runs that both returned 0, with the
\* remotes unmoved and the fork directory cloned by the first.
C10_Witness ==
    /\ run = 2
    /\ prevResult = "0"
    /\ pc = "done"
    /\ result = "0"
    /\ synced[fork_dir].ok
    /\ synced[fork_dir].run = 1
    /\ Len(CallLog(2)) = 3

====
